---- MODULE Spec2Model ----
(***************************************************************************)
(* Transaction Deletion Record (erpnext/setup/doctype/                     *)
(* transaction_deletion_record/transaction_deletion_record.py).            *)
(*                                                                         *)
(* One job document, the record store it purges, the background queue     *)
(* ("long") its stages chain through, and the units of work (a whitelisted *)
(* call or a dequeued continuation) that load the job, run a method on it  *)
(* and commit or roll back.                                                *)
(***************************************************************************)
EXTENDS Integers, Sequences, FiniteSets, TLC

VARIABLES
    doc,          \* the job document as committed in the database
    db,           \* the record store (committed)
    cache,        \* the notification-count cache (not transactional)
    queue,        \* the background queue "long": enqueued methods, oldest first
    requests,     \* web request -> the whitelisted call it has loaded, or Idle
    job,          \* the run the worker of queue "long" has loaded, or Idle
    invocations,  \* number of whitelisted calls made so far
    effects,      \* stage -> number of committed executions of its effect
    last          \* what the most recent request / unit of work did

vars == <<doc, db, cache, queue, requests, job, invocations, effects, last>>

-----------------------------------------------------------------------------
(* Bounds of the model *)

MaxInvocations == 2

(* self.batch_size (5000 in the source), scaled so that a record type can   *)
(* hold more matching records than one batch.                               *)
batch_size == 2

-----------------------------------------------------------------------------
(* Names *)

NULL == ""
TargetCompany == "C1"
OtherCompany == "C2"
SelfDoctype == "Transaction Deletion Record"

(* the pipeline's methods, in the order start_deletion_process calls them *)
Stages ==
    << "delete_bins", "delete_lead_addresses", "reset_company_values",
       "delete_notifications", "initialize_doctypes_to_be_deleted_table",
       "delete_company_transactions" >>

StageSet == {Stages[i] : i \in 1..Len(Stages)}

(* the checkpoint field each stage tests and sets *)
FlagOf(stage) ==
    CASE stage = "delete_bins" -> "delete_bin_data"
      [] stage = "delete_lead_addresses" -> "delete_leads_and_addresses"
      [] stage = "reset_company_values" -> "reset_company_default_values"
      [] stage = "delete_notifications" -> "clear_notifications"
      [] stage = "initialize_doctypes_to_be_deleted_table" -> "initialize_doctypes_table"
      [] stage = "delete_company_transactions" -> "delete_transactions"

FlagFields == {FlagOf(s) : s \in StageSet}

StageIndex(stage) == CHOOSE i \in 1..Len(Stages) : Stages[i] = stage

-----------------------------------------------------------------------------
(* Schema catalog: what the DocType / DocField queries of the module return *)

(* DocField rows with fieldtype Link, options Company, in the order the     *)
(* query returns them                                                       *)
CompanyLinkFields ==
    << [parent |-> "Sales Invoice", fieldname |-> "company"],
       [parent |-> "Sales Invoice", fieldname |-> "represents_company"],
       [parent |-> "Sales Invoice Item", fieldname |-> "company"],
       [parent |-> "Lead", fieldname |-> "company"],
       [parent |-> "Account", fieldname |-> "company"],
       [parent |-> "Warehouse", fieldname |-> "company"],
       [parent |-> "Party Account", fieldname |-> "company"],
       [parent |-> "Salary Structure", fieldname |-> "company"],
       [parent |-> "Global Defaults", fieldname |-> "company"],
       [parent |-> SelfDoctype, fieldname |-> "company"] >>

(* DocType rows with istable = 1 *)
ChildDoctypes == {"Sales Invoice Item", "Party Account"}

(* DocType rows with issingle = 1 *)
SingleDoctypes == {"Global Defaults"}

(* DocField rows with fieldtype Table: parent doctype -> child doctypes *)
TableFields(doctype) ==
    CASE doctype = "Sales Invoice" -> {"Sales Invoice Item"}
      [] doctype = "Customer" -> {"Party Account"}
      [] OTHER -> {}

(* DocType.autoname *)
Autoname(doctype) ==
    CASE doctype = "Sales Invoice" -> "INV-.#####"
      [] doctype = "Lead" -> "LEAD-.#"
      [] doctype = "Account" -> "naming_series:"
      [] OTHER -> NULL

(* the built-in list of get_doctypes_to_be_ignored, cut down to the types   *)
(* of this catalog                                                          *)
BuiltinIgnored == {"Account", "Warehouse", "Party Account", "Company", "Customer"}

(* frappe.get_hooks("company_data_to_be_ignored") *)
company_data_to_be_ignored == {"Salary Structure"}

-----------------------------------------------------------------------------
(* Record store *)

Row(dt, name, company) ==
    [dt |-> dt, name |-> name, company |-> company, represents_company |-> NULL,
     parent |-> NULL, parenttype |-> NULL, lead_name |-> NULL]

ChildRow(dt, name, parent, parenttype, company) ==
    [Row(dt, name, company) EXCEPT !.parent = parent, !.parenttype = parenttype]

(* the record names in the default order of get_all (most recently modified *)
(* first)                                                                   *)
ModifiedOrder ==
    << "INV-00003", "INV-00002", "INV-00005", "INV-00004", "INV-00001",
       "LEAD-2", "LEAD-10", "LEAD-1", "ACC-1", "ACC-2", "WH-1", "WH-2", "SS-1",
       "CUST-1", "CUST-2", "SII-1", "SII-3", "SII-5", "PA-1",
       "ADDR-1", "ADDR-2", "ADDR-3", "ADDR-4", "TDR-0" >>

ModifiedRank(name) == CHOOSE i \in 1..Len(ModifiedOrder) : ModifiedOrder[i] = name

InitialRows ==
    { Row("Sales Invoice", "INV-00001", TargetCompany),
      Row("Sales Invoice", "INV-00002", TargetCompany),
      Row("Sales Invoice", "INV-00003", TargetCompany),
      [Row("Sales Invoice", "INV-00004", OtherCompany)
          EXCEPT !.represents_company = TargetCompany],
      Row("Sales Invoice", "INV-00005", OtherCompany),
      ChildRow("Sales Invoice Item", "SII-1", "INV-00001", "Sales Invoice", TargetCompany),
      ChildRow("Sales Invoice Item", "SII-3", "INV-00003", "Sales Invoice", TargetCompany),
      ChildRow("Sales Invoice Item", "SII-5", "INV-00005", "Sales Invoice", OtherCompany),
      Row("Lead", "LEAD-1", TargetCompany),
      Row("Lead", "LEAD-2", OtherCompany),
      Row("Lead", "LEAD-10", OtherCompany),
      Row("Account", "ACC-1", TargetCompany),
      Row("Account", "ACC-2", OtherCompany),
      Row("Warehouse", "WH-1", TargetCompany),
      Row("Warehouse", "WH-2", OtherCompany),
      Row("Salary Structure", "SS-1", TargetCompany),
      [Row("Customer", "CUST-1", NULL) EXCEPT !.lead_name = "LEAD-1"],
      [Row("Customer", "CUST-2", NULL) EXCEPT !.lead_name = "LEAD-2"],
      ChildRow("Party Account", "PA-1", "CUST-1", "Customer", TargetCompany),
      Row("Address", "ADDR-1", NULL),
      Row("Address", "ADDR-2", NULL),
      Row("Address", "ADDR-3", NULL),
      Row("Address", "ADDR-4", NULL),
      Row(SelfDoctype, "TDR-0", TargetCompany) }

Ref(name, doctype, docname) ==
    [name |-> name, ref_doctype |-> doctype, ref_name |-> docname]

DynLink(parent, link_doctype, link_name) ==
    [parent |-> parent, parenttype |-> "Address",
     link_doctype |-> link_doctype, link_name |-> link_name]

InitialDb ==
    [ rows |-> InitialRows,
      versions |-> { Ref("VER-1", "Sales Invoice", "INV-00001"),
                     Ref("VER-3", "Sales Invoice", "INV-00003"),
                     Ref("VER-5", "Sales Invoice", "INV-00005") },
      communications |-> { Ref("COMM-2", "Sales Invoice", "INV-00002") },
      comments |-> { Ref("CMT-1", "Sales Invoice", "INV-00001"),
                     Ref("CMT-2", "Sales Invoice", "INV-00002") },
      files |-> { Ref("FILE-3", "Sales Invoice", "INV-00003"),
                  Ref("FILE-1", "Sales Invoice", "INV-00001") },
      bins |-> { [name |-> "BIN-1", warehouse |-> "WH-1"],
                 [name |-> "BIN-2", warehouse |-> "WH-2"] },
      links |-> { DynLink("ADDR-1", "Lead", "LEAD-1"),
                  DynLink("ADDR-2", "Lead", "LEAD-1"),
                  DynLink("ADDR-2", "Customer", "CUST-2"),
                  DynLink("ADDR-3", "Lead", "LEAD-2"),
                  DynLink("ADDR-4", "Lead", "LEAD-1"),
                  DynLink("ADDR-4", "Lead", "LEAD-2") },
      company_vals |-> [c \in {TargetCompany, OtherCompany} |->
                          [total_monthly_sales |-> 100, sales_monthly_history |-> "history"]],
      series |-> [p \in {"INV-", "LEAD-", "ACC-"} |-> IF p = "LEAD-" THEN 10 ELSE 5] ]

-----------------------------------------------------------------------------
(* The job document *)

NoFlags == [f \in FlagFields |-> 0]
AllFlags == [f \in FlagFields |-> 1]

(* a document that has not been inserted yet (docstatus -1) *)
NewDoc ==
    [ docstatus |-> -1, status |-> NULL, company |-> TargetCompany,
      clear_notifications |-> 0, delete_bin_data |-> 0,
      delete_leads_and_addresses |-> 0, delete_transactions |-> 0,
      initialize_doctypes_table |-> 0, reset_company_default_values |-> 0,
      doctypes |-> << >>, doctypes_to_be_ignored |-> {} ]

Flags(d) == [f \in FlagFields |-> d[f]]

WithFlags(d, fl) ==
    [d EXCEPT !.clear_notifications = fl["clear_notifications"],
              !.delete_bin_data = fl["delete_bin_data"],
              !.delete_leads_and_addresses = fl["delete_leads_and_addresses"],
              !.delete_transactions = fl["delete_transactions"],
              !.initialize_doctypes_table = fl["initialize_doctypes_table"],
              !.reset_company_default_values = fl["reset_company_default_values"]]

get_doctypes_to_be_ignored == BuiltinIgnored \cup company_data_to_be_ignored

(* variant: the ignore list is not compared with the resolver's output *)
validate_doctypes_to_be_ignored_unchecked(d) == "none"

(* "none", or the exception raised *)
validate_doctypes_to_be_ignored(d) ==
    IF \E doctype \in d.doctypes_to_be_ignored : doctype \notin get_doctypes_to_be_ignored
    THEN "ValidationError"
    ELSE "none"

validate(d, user) ==
    IF user # "System Manager"
    THEN "PermissionError"
    ELSE validate_doctypes_to_be_ignored(d)

populate_doctypes_to_be_ignored_table(d) ==
    [d EXCEPT !.doctypes_to_be_ignored = @ \cup get_doctypes_to_be_ignored]

before_submit(d) ==
    IF d.doctypes_to_be_ignored = {}
    THEN populate_doctypes_to_be_ignored_table(d)
    ELSE d

reset_task_flags(d) ==
    [d EXCEPT !.clear_notifications = 0,
              !.delete_bin_data = 0,
              !.delete_leads_and_addresses = 0,
              !.delete_transactions = 0,
              !.reset_company_default_values = 0]

before_save(d) == reset_task_flags([d EXCEPT !.status = ""])

(* variant: submitting marks the job as running *)
on_submit_running(d) == [d EXCEPT !.status = "Running"]

on_submit(d) == [d EXCEPT !.status = "Queued"]

(* variant: cancelling also resets the checkpoint flags *)
on_cancel_resetting(d) == reset_task_flags([d EXCEPT !.status = "Cancelled"])

on_cancel(d) == [d EXCEPT !.status = "Cancelled"]

-----------------------------------------------------------------------------
(* Requests of the operator: save a draft, submit, cancel *)

(* a loaded unit of work: the method, the job as loaded, and whether the job *)
(* was written by someone else since (its "modified" stamp has moved on)     *)
Idle == [method |-> NULL, doc |-> NewDoc, stale |-> FALSE]

Outdated(loaded) ==
    [w \in DOMAIN loaded |->
        IF loaded[w] = Idle THEN Idle ELSE [loaded[w] EXCEPT !.stale = TRUE]]

Users == {"System Manager", "Accounts User"}

(* the Excluded DocTypes table the client sends: left empty, the resolver's  *)
(* list, the list with an entry removed, the list with an entry added       *)
IgnoreInputs ==
    { {}, get_doctypes_to_be_ignored, get_doctypes_to_be_ignored \ {"Account"},
      get_doctypes_to_be_ignored \cup {"Sales Invoice"} }

(* the checkpoint fields the client sends: a fresh document, or the copy of *)
(* a job that has run                                                       *)
FlagInputs == {NoFlags, AllFlags}

NoUnit ==
    [ op |-> "none", method |-> NULL, user |-> NULL, ignored |-> {},
      error |-> "none", eff |-> << >>, batches |-> << >> ]

Request(op, user, ignored, error) ==
    [NoUnit EXCEPT !.op = op, !.user = user, !.ignored = ignored, !.error = error]

(* save of a draft: validate, before_save, write *)
Save(user, ignored, flags) ==
    /\ doc.docstatus \in {-1, 0}
    /\ LET d == WithFlags([doc EXCEPT !.doctypes_to_be_ignored = ignored], flags)
           error == validate(d, user)
       IN /\ doc' = IF error = "none"
                    THEN [before_save(d) EXCEPT !.docstatus = 0]
                    ELSE doc
          /\ last' = Request("save", user, ignored, error)
    /\ UNCHANGED <<db, cache, queue, requests, job, invocations, effects>>

(* submit of a saved draft: validate, before_submit, write, on_submit *)
Submit(user, ignored) ==
    /\ doc.docstatus = 0
    /\ LET d == [doc EXCEPT !.doctypes_to_be_ignored = ignored]
           error == validate(d, user)
       IN /\ doc' = IF error = "none"
                    THEN on_submit([before_submit(d) EXCEPT !.docstatus = 1])
                    ELSE doc
          /\ last' = Request("submit", user, ignored, error)
    /\ UNCHANGED <<db, cache, queue, requests, job, invocations, effects>>

(* cancel of a submitted job: write docstatus 2, on_cancel *)
Cancel ==
    /\ doc.docstatus = 1
    /\ doc' = [on_cancel(doc) EXCEPT !.docstatus = 2]
    /\ requests' = Outdated(requests)
    /\ job' = Outdated(<<job>>)[1]
    /\ last' = Request("cancel", NULL, {}, "none")
    /\ UNCHANGED <<db, cache, queue, invocations, effects>>

-----------------------------------------------------------------------------
(* A unit of work: the method runs on the job as loaded (ctx.doc), reads and *)
(* writes the record store inside one database transaction (ctx.db), and     *)
(* collects the runs it enqueues after commit (ctx.out).  An exception       *)
(* (ctx.error) ends the method: every later statement is skipped.            *)

Context(d, store, c, stale, failAt) ==
    [ doc |-> d, db |-> store, cache |-> c,
      out |-> << >>,        \* methods enqueued with enqueue_after_commit
      now |-> << >>,        \* methods enqueued at once
      eff |-> << >>,        \* stage effects entered: the stage, the flags it saw
      batches |-> << >>,    \* per inventory entry processed: fetched and deleted
      done |-> {},          \* inventory rows marked done in the database
      written |-> FALSE,    \* the job document was written (db_set, save)
      saved |-> FALSE,      \* the whole job document was written (save)
      stale |-> stale,      \* the job was modified by another unit since it was loaded
      failAt |-> failAt,    \* the stage whose effect raises in this run, or "none"
      error |-> "none" ]

Raised(ctx) == ctx.error # "none"

Raise(ctx, error) == IF Raised(ctx) THEN ctx ELSE [ctx EXCEPT !.error = error]

(* Document.db_set: the field in memory and in the database *)
db_set(ctx, fieldname, value) ==
    IF Raised(ctx) THEN ctx
    ELSE [ctx EXCEPT !.doc[fieldname] = value, !.written = TRUE]

(* frappe.enqueue(run_doc_method, doc_method=method, queue="long",           *)
(* enqueue_after_commit=...): held back until the transaction commits, or    *)
(* pushed to the queue at once                                               *)
Enqueue(ctx, method, enqueue_after_commit) ==
    IF enqueue_after_commit
    THEN [ctx EXCEPT !.out = Append(@, method)]
    ELSE [ctx EXCEPT !.now = Append(@, method)]

(* variant: the continuation is pushed to the queue before the commit *)
chain_callback_before_commit(ctx, method) ==
    IF Raised(ctx) THEN ctx ELSE Enqueue(ctx, method, FALSE)

chain_callback(ctx, method) ==
    IF Raised(ctx) THEN ctx ELSE Enqueue(ctx, method, TRUE)

(* the body of "if not self.<flag>:" is entered: the effect is logged with   *)
(* the flags of the job at that moment, and raises if this run's data-store  *)
(* failure is placed here                                                    *)
Enter(ctx, stage) ==
    IF Raised(ctx) THEN ctx
    ELSE LET logged == [ctx EXCEPT !.eff = Append(@, [stage |-> stage, flags |-> Flags(ctx.doc)])]
         IN IF ctx.failAt = stage THEN Raise(logged, "StageError") ELSE logged

(* frappe.desk.notifications.clear_notifications: drops the cached counts *)
ClearNotifications(ctx) ==
    IF Raised(ctx) THEN ctx ELSE [ctx EXCEPT !.cache = "cleared"]

(* variant: the stage does not look at its checkpoint flag *)
delete_notifications_unguarded(ctx) ==
    chain_callback(db_set(ClearNotifications(Enter(ctx, "delete_notifications")),
                          "clear_notifications", 1),
                   "initialize_doctypes_to_be_deleted_table")

delete_notifications(ctx) ==
    LET c1 == IF ~Raised(ctx) /\ ctx.doc.clear_notifications = 0
              THEN db_set(ClearNotifications(Enter(ctx, "delete_notifications")),
                          "clear_notifications", 1)
              ELSE ctx
    IN chain_callback(c1, "initialize_doctypes_to_be_deleted_table")

(* delete from tabBin where warehouse in (select name from tabWarehouse where company = ...) *)
DeleteBinRows(ctx) ==
    IF Raised(ctx) THEN ctx
    ELSE LET warehouses == {r.name : r \in {q \in ctx.db.rows :
                                q.dt = "Warehouse" /\ q.company = ctx.doc.company}}
         IN [ctx EXCEPT !.db.bins = {b \in @ : b.warehouse \notin warehouses}]

(* variant: the stage hands over to the stage after its successor *)
delete_bins_skipping(ctx) ==
    LET c1 == IF ~Raised(ctx) /\ ctx.doc.delete_bin_data = 0
              THEN db_set(DeleteBinRows(Enter(ctx, "delete_bins")), "delete_bin_data", 1)
              ELSE ctx
    IN chain_callback(c1, "reset_company_values")

delete_bins(ctx) ==
    LET c1 == IF ~Raised(ctx) /\ ctx.doc.delete_bin_data = 0
              THEN db_set(DeleteBinRows(Enter(ctx, "delete_bins")), "delete_bin_data", 1)
              ELSE ctx
    IN chain_callback(c1, "delete_lead_addresses")

(* the three statements of delete_lead_addresses under "if not flag" *)
DeleteLeadAddressRows(ctx) ==
    IF Raised(ctx) THEN ctx
    ELSE
    LET leads == {r.name : r \in {q \in ctx.db.rows :
                      q.dt = "Lead" /\ q.company = ctx.doc.company}}
        addresses == {l.parent : l \in {k \in ctx.db.links : k.link_name \in leads}}
        multi == {l1.parent : l1 \in {k \in ctx.db.links :
                      \E l2 \in ctx.db.links :
                          k.parent = l2.parent /\ k.link_doctype # l2.link_doctype}}
        rows1 == IF leads # {} /\ addresses # {}
                 THEN {r \in ctx.db.rows :
                          ~(r.dt = "Address" /\ r.name \in addresses /\ r.name \notin multi)}
                 ELSE ctx.db.rows
        links1 == IF leads # {} /\ addresses # {}
                  THEN {l \in ctx.db.links :
                           ~(l.link_doctype = "Lead" /\ l.parenttype = "Address"
                             /\ l.link_name \in leads)}
                  ELSE ctx.db.links
        rows2 == IF leads # {}
                 THEN {IF r.dt = "Customer" /\ r.lead_name \in leads
                       THEN [r EXCEPT !.lead_name = NULL] ELSE r : r \in rows1}
                 ELSE rows1
    IN [ctx EXCEPT !.db.rows = rows2, !.db.links = links1]

delete_lead_addresses(ctx) ==
    LET c1 == IF ~Raised(ctx) /\ ctx.doc.delete_leads_and_addresses = 0
              THEN db_set(DeleteLeadAddressRows(Enter(ctx, "delete_lead_addresses")),
                          "delete_leads_and_addresses", 1)
              ELSE ctx
    IN chain_callback(c1, "reset_company_values")

(* company_obj.total_monthly_sales = 0; sales_monthly_history = None; save() *)
ResetCompanyRow(ctx) ==
    IF Raised(ctx) THEN ctx
    ELSE [ctx EXCEPT !.db.company_vals[ctx.doc.company] =
              [total_monthly_sales |-> 0, sales_monthly_history |-> NULL]]

(* variant: the successor is scheduled only when the effect is performed *)
reset_company_values_chain_inside(ctx) ==
    IF ~Raised(ctx) /\ ctx.doc.reset_company_default_values = 0
    THEN chain_callback(db_set(ResetCompanyRow(Enter(ctx, "reset_company_values")),
                               "reset_company_default_values", 1),
                        "delete_notifications")
    ELSE ctx

reset_company_values(ctx) ==
    LET c1 == IF ~Raised(ctx) /\ ctx.doc.reset_company_default_values = 0
              THEN db_set(ResetCompanyRow(Enter(ctx, "reset_company_values")),
                          "reset_company_default_values", 1)
              ELSE ctx
    IN chain_callback(c1, "delete_notifications")

-----------------------------------------------------------------------------
(* Inventory initialization *)

get_doctypes_to_be_ignored_list(d) == SingleDoctypes \cup d.doctypes_to_be_ignored

(* variant: the query has no "parent not in" filter *)
get_doctypes_with_company_field_unfiltered(doctypes_to_be_ignored_list) ==
    CompanyLinkFields

get_doctypes_with_company_field(doctypes_to_be_ignored_list) ==
    SelectSeq(CompanyLinkFields, LAMBDA f : f.parent \notin doctypes_to_be_ignored_list)

get_all_child_doctypes == ChildDoctypes

Matching(ctx, doctype, company_fieldname) ==
    {r \in ctx.db.rows : r.dt = doctype /\ r[company_fieldname] = ctx.doc.company}

get_number_of_docs_linked_with_specified_company(ctx, doctype, company_fieldname) ==
    Cardinality(Matching(ctx, doctype, company_fieldname))

(* Document.save of the submitted job (ignore_validate_update_after_submit): *)
(* refused when the job was modified since it was loaded, or is cancelled    *)
SaveDoc(ctx) ==
    IF Raised(ctx) THEN ctx
    ELSE IF ctx.stale THEN Raise(ctx, "TimestampMismatchError")
    ELSE IF ctx.doc.docstatus = 2 THEN Raise(ctx, "ValidationError")
    ELSE [ctx EXCEPT !.written = TRUE, !.saved = TRUE]

(* variant: the row is appended for child tables too *)
populate_doctypes_table_any(ctx, tables, doctype, fieldname, no_of_docs) ==
    IF Raised(ctx) THEN ctx
    ELSE SaveDoc([ctx EXCEPT !.doc.doctypes =
                     Append(@, [doctype_name |-> doctype, docfield_name |-> fieldname,
                                no_of_docs |-> no_of_docs, done |-> 0])])

populate_doctypes_table(ctx, tables, doctype, fieldname, no_of_docs) ==
    IF Raised(ctx) THEN ctx
    ELSE LET c1 == IF doctype \notin tables
                   THEN [ctx EXCEPT !.doc.doctypes =
                            Append(@, [doctype_name |-> doctype, docfield_name |-> fieldname,
                                       no_of_docs |-> no_of_docs, done |-> 0])]
                   ELSE ctx
         IN SaveDoc(c1)

(* variant: the job's own doctype is not skipped *)
RECURSIVE InitializeLoop_own(_, _, _, _)
InitializeLoop_own(ctx, docfields, tables, i) ==
    IF i > Len(docfields) \/ Raised(ctx) THEN ctx
    ELSE LET docfield == docfields[i]
             no_of_docs == get_number_of_docs_linked_with_specified_company(
                               ctx, docfield.parent, docfield.fieldname)
             c1 == IF no_of_docs > 0
                   THEN populate_doctypes_table(ctx, tables, docfield.parent,
                                                docfield.fieldname, 0)
                   ELSE ctx
         IN InitializeLoop_own(c1, docfields, tables, i + 1)

RECURSIVE InitializeLoop(_, _, _, _)
InitializeLoop(ctx, docfields, tables, i) ==
    IF i > Len(docfields) \/ Raised(ctx) THEN ctx
    ELSE LET docfield == docfields[i]
             no_of_docs == get_number_of_docs_linked_with_specified_company(
                               ctx, docfield.parent, docfield.fieldname)
             c1 == IF docfield.parent # SelfDoctype /\ no_of_docs > 0
                   THEN populate_doctypes_table(ctx, tables, docfield.parent,
                                                docfield.fieldname, 0)
                   ELSE ctx
         IN InitializeLoop(c1, docfields, tables, i + 1)

initialize_doctypes_to_be_deleted_table(ctx) ==
    LET c1 == IF ~Raised(ctx) /\ ctx.doc.initialize_doctypes_table = 0
              THEN LET doctypes_to_be_ignored_list == get_doctypes_to_be_ignored_list(ctx.doc)
                       docfields == get_doctypes_with_company_field(doctypes_to_be_ignored_list)
                       tables == get_all_child_doctypes
                   IN db_set(InitializeLoop(
                                 Enter(ctx, "initialize_doctypes_to_be_deleted_table"),
                                 docfields, tables, 1),
                             "initialize_doctypes_table", 1)
              ELSE ctx
    IN chain_callback(c1, "delete_company_transactions")

-----------------------------------------------------------------------------
(* Transaction deletion *)

(* frappe.get_all(doctype, filters={fieldname: company}, limit=limit): names *)
get_all(ctx, doctype, company_fieldname, limit) ==
    LET found == Matching(ctx, doctype, company_fieldname)
    IN {r.name : r \in {q \in found :
            Cardinality({o \in found : ModifiedRank(o.name) < ModifiedRank(q.name)}) < limit}}

delete_version_log(ctx, doctype, docnames) ==
    [ctx EXCEPT !.db.versions =
        {v \in @ : ~(v.ref_doctype = doctype /\ v.ref_name \in docnames)}]

delete_communications(ctx, doctype, reference_doc_names) ==
    [ctx EXCEPT !.db.communications =
        {c \in @ : ~(c.ref_doctype = doctype /\ c.ref_name \in reference_doc_names)}]

delete_comments(ctx, doctype, reference_doc_names) ==
    [ctx EXCEPT !.db.comments =
        {c \in @ : ~(c.ref_doctype = doctype /\ c.ref_name \in reference_doc_names)}]

unlink_attachments(ctx, doctype, reference_doc_names) ==
    [ctx EXCEPT !.db.files =
        {IF f.ref_doctype = doctype /\ f.ref_name \in reference_doc_names
         THEN [f EXCEPT !.ref_doctype = NULL, !.ref_name = NULL]
         ELSE f : f \in @}]

delete_child_tables(ctx, doctype, reference_doc_names) ==
    LET child_tables == TableFields(doctype)
    IN [ctx EXCEPT !.db.rows =
           {r \in @ : ~(r.dt \in child_tables /\ r.parent \in reference_doc_names)}]

delete_docs_linked_with_specified_company(ctx, doctype, company_fieldname) ==
    [ctx EXCEPT !.db.rows = @ \ Matching(ctx, doctype, company_fieldname)]

(* the names of the catalog that carry a series prefix, in ascending string *)
(* order (the order of SQL max(name)): "LEAD-1" < "LEAD-10" < "LEAD-2"       *)
SeriesNames ==
    << "ACC-1", "ACC-2",
       "INV-00001", "INV-00002", "INV-00003", "INV-00004", "INV-00005",
       "LEAD-1", "LEAD-10", "LEAD-2" >>

(* naming_series.rsplit(".", 1)[0] *)
SeriesPrefix(naming_series) ==
    CASE naming_series = "INV-.#####" -> "INV-"
      [] naming_series = "LEAD-.#" -> "LEAD-"
      [] OTHER -> naming_series

(* '"#" in naming_series' *)
HasCounter(naming_series) == naming_series \in {"INV-.#####", "LEAD-.#"}

(* the prefix a name of the catalog starts with *)
PrefixOf(name) ==
    CASE name \in {"ACC-1", "ACC-2"} -> "ACC-"
      [] name \in {"INV-00001", "INV-00002", "INV-00003", "INV-00004", "INV-00005"} -> "INV-"
      [] name \in {"LEAD-1", "LEAD-10", "LEAD-2"} -> "LEAD-"
      [] OTHER -> NULL

(* name like prefix% *)
NameLike(name, prefix) == prefix # NULL /\ PrefixOf(name) = prefix

StringRank(name) == CHOOSE i \in 1..Len(SeriesNames) : SeriesNames[i] = name

(* cint(name.replace(prefix, "")) *)
SuffixNumber(name, prefix) ==
    CASE name \in {"ACC-1", "INV-00001", "LEAD-1"} -> 1
      [] name \in {"ACC-2", "INV-00002", "LEAD-2"} -> 2
      [] name = "INV-00003" -> 3
      [] name = "INV-00004" -> 4
      [] name = "INV-00005" -> 5
      [] name = "LEAD-10" -> 10

update_naming_series(ctx, naming_series, doctype_name) ==
    LET prefix == SeriesPrefix(naming_series)
        names == {r.name : r \in {q \in ctx.db.rows :
                      q.dt = doctype_name /\ NameLike(q.name, prefix)}}
        current == IF names = {} THEN 0
                   ELSE LET top == CHOOSE n \in names :
                                      \A m \in names : StringRank(m) <= StringRank(n)
                        IN SuffixNumber(top, prefix)
    IN IF prefix \in DOMAIN ctx.db.series
       THEN [ctx EXCEPT !.db.series[prefix] = current]
       ELSE ctx

(* the body of "if no_of_docs > 0" for one inventory row *)
DeleteBatch(ctx, docfield) ==
    LET reference_doc_names ==
            get_all(ctx, docfield.doctype_name, docfield.docfield_name, batch_size)
        c1 == delete_version_log(ctx, docfield.doctype_name, reference_doc_names)
        c2 == delete_communications(c1, docfield.doctype_name, reference_doc_names)
        c3 == delete_comments(c2, docfield.doctype_name, reference_doc_names)
        c4 == unlink_attachments(c3, docfield.doctype_name, reference_doc_names)
        c5 == delete_child_tables(c4, docfield.doctype_name, reference_doc_names)
        c6 == delete_docs_linked_with_specified_company(
                  c5, docfield.doctype_name, docfield.docfield_name)
        naming_series == Autoname(docfield.doctype_name)
        c7 == IF naming_series # NULL /\ HasCounter(naming_series)
              THEN update_naming_series(c6, naming_series, docfield.doctype_name)
              ELSE c6
        c8 == [c7 EXCEPT !.batches = Append(@,
                  [doctype_name |-> docfield.doctype_name,
                   docfield_name |-> docfield.docfield_name,
                   fetched |-> reference_doc_names,
                   deleted |-> {r.name : r \in {q \in ctx.db.rows \ c7.db.rows :
                                   q.dt = docfield.doctype_name}}])]
    IN chain_callback(c8, "delete_company_transactions")

(* variant: an entry without matching records is passed over unmarked *)
RECURSIVE DeleteLoop_unmarked(_, _)
DeleteLoop_unmarked(ctx, i) ==
    IF i > Len(ctx.doc.doctypes) \/ Raised(ctx) THEN ctx
    ELSE LET docfield == ctx.doc.doctypes[i]
             no_of_docs == get_number_of_docs_linked_with_specified_company(
                               ctx, docfield.doctype_name, docfield.docfield_name)
             c1 == IF docfield.doctype_name # SelfDoctype /\ docfield.done = 0
                      /\ no_of_docs > 0
                   THEN DeleteBatch(ctx, docfield)
                   ELSE ctx
         IN DeleteLoop_unmarked(c1, i + 1)

RECURSIVE DeleteLoop(_, _)
DeleteLoop(ctx, i) ==
    IF i > Len(ctx.doc.doctypes) \/ Raised(ctx) THEN ctx
    ELSE LET docfield == ctx.doc.doctypes[i]
             no_of_docs == get_number_of_docs_linked_with_specified_company(
                               ctx, docfield.doctype_name, docfield.docfield_name)
             c1 == IF docfield.doctype_name # SelfDoctype /\ docfield.done = 0
                   THEN IF no_of_docs > 0
                        THEN DeleteBatch(ctx, docfield)
                        ELSE [ctx EXCEPT !.done = @ \cup {i}]
                   ELSE ctx
         IN DeleteLoop(c1, i + 1)

(* variant: a run that finds the flag set enqueues itself again *)
delete_company_transactions_rechaining(ctx) ==
    IF ~Raised(ctx) /\ ctx.doc.delete_transactions = 0
    THEN db_set(DeleteLoop(Enter(ctx, "delete_company_transactions"), 1),
                "delete_transactions", 1)
    ELSE chain_callback(ctx, "delete_company_transactions")

delete_company_transactions(ctx) ==
    IF ~Raised(ctx) /\ ctx.doc.delete_transactions = 0
    THEN db_set(DeleteLoop(Enter(ctx, "delete_company_transactions"), 1),
                "delete_transactions", 1)
    ELSE ctx

start_deletion_process(ctx) ==
    LET c1 == delete_bins(ctx)
        c2 == delete_lead_addresses(c1)
        c3 == reset_company_values(c2)
        c4 == delete_notifications(c3)
        c5 == initialize_doctypes_to_be_deleted_table(c4)
    IN delete_company_transactions(c5)

(* run_doc_method: getattr(doc, doc_method)() *)
RunMethod(ctx, method) ==
    CASE method = "start_deletion_process" -> start_deletion_process(ctx)
      [] method = "delete_bins" -> delete_bins(ctx)
      [] method = "delete_lead_addresses" -> delete_lead_addresses(ctx)
      [] method = "reset_company_values" -> reset_company_values(ctx)
      [] method = "delete_notifications" -> delete_notifications(ctx)
      [] method = "initialize_doctypes_to_be_deleted_table" ->
             initialize_doctypes_to_be_deleted_table(ctx)
      [] method = "delete_company_transactions" -> delete_company_transactions(ctx)

-----------------------------------------------------------------------------
(* Units of work *)

Methods == StageSet \cup {"start_deletion_process"}

(* the methods an operator can call on the job (frappe.whitelist) *)
Whitelisted == {"start_deletion_process", "delete_bins"}

Requests == 1..MaxInvocations

Load(method) == [method |-> method, doc |-> doc, stale |-> FALSE]

(* a whitelisted method is called on the submitted job: the web request      *)
(* loads the job                                                             *)
Invoke(method) ==
    /\ method \in Whitelisted
    /\ doc.docstatus = 1
    /\ invocations < MaxInvocations
    /\ requests' = [requests EXCEPT ![invocations + 1] = Load(method)]
    /\ invocations' = invocations + 1
    /\ UNCHANGED <<doc, db, cache, queue, job, effects, last>>

(* the worker of queue "long" takes the oldest enqueued run and loads the job *)
Dequeue ==
    /\ queue # << >>
    /\ job = Idle
    /\ queue' = Tail(queue)
    /\ job' = Load(Head(queue))
    /\ UNCHANGED <<doc, db, cache, requests, invocations, effects, last>>

(* variant: the commit writes the done column of every inventory row from    *)
(* the unit's own marks                                                      *)
Committed_rewriting(ctx) ==
    LET merged == [f \in FlagFields |-> IF ctx.doc[f] = 1 THEN 1 ELSE doc[f]]
        table == IF ctx.saved THEN ctx.doc.doctypes ELSE doc.doctypes
        marked == [i \in 1..Len(table) |->
                      [table[i] EXCEPT !.done = IF i \in ctx.done THEN 1 ELSE 0]]
    IN [WithFlags(doc, merged) EXCEPT !.doctypes = marked]

(* the job document after a unit's transaction commits: the fields it set,   *)
(* the inventory it saved, the inventory rows it marked done                 *)
Committed(ctx) ==
    LET merged == [f \in FlagFields |-> IF ctx.doc[f] = 1 THEN 1 ELSE doc[f]]
        table == IF ctx.saved THEN ctx.doc.doctypes ELSE doc.doctypes
        marked == [i \in 1..Len(table) |->
                      IF i \in ctx.done THEN [table[i] EXCEPT !.done = 1] ELSE table[i]]
    IN [WithFlags(doc, merged) EXCEPT !.doctypes = marked]

Outcome(method, ctx) ==
    [NoUnit EXCEPT !.op = "unit", !.method = method, !.error = ctx.error,
                   !.eff = ctx.eff, !.batches = ctx.batches]

(* the method of a loaded unit, run to its end on the store as it is now;    *)
(* failAt places a data-store failure in the effect of that stage            *)
Result(unit, failAt) ==
    RunMethod(Context(unit.doc, db, cache, unit.stale, failAt), unit.method)

(* the unit ends: its transaction commits and its enqueued runs reach the    *)
(* queue, or its exception rolls the transaction back                        *)
Finish(unit, failAt, ctx) ==
    /\ IF failAt = "none" THEN TRUE
       ELSE unit.doc[FlagOf(failAt)] = 0 /\ ctx.error = "StageError"
    /\ IF Raised(ctx)
       THEN /\ queue' = queue \o ctx.now
            /\ UNCHANGED <<doc, db, effects>>
       ELSE /\ doc' = Committed(ctx)
            /\ db' = ctx.db
            /\ queue' = queue \o ctx.now \o ctx.out
            /\ effects' = [s \in StageSet |->
                  effects[s] + Cardinality({i \in 1..Len(ctx.eff) : ctx.eff[i].stage = s})]
    /\ cache' = ctx.cache
    /\ last' = Outcome(unit.method, ctx)
    /\ UNCHANGED invocations

(* the units still loaded when ctx commits: outdated if it wrote the job *)
Others(loaded, ctx) ==
    IF ~Raised(ctx) /\ ctx.written THEN Outdated(loaded) ELSE loaded

RunRequest(r, failAt) ==
    /\ requests[r] # Idle
    /\ LET ctx == Result(requests[r], failAt)
       IN /\ Finish(requests[r], failAt, ctx)
          /\ requests' = [Others(requests, ctx) EXCEPT ![r] = Idle]
          /\ job' = Others(<<job>>, ctx)[1]

RunJob(failAt) ==
    /\ job # Idle
    /\ LET ctx == Result(job, failAt)
       IN /\ Finish(job, failAt, ctx)
          /\ job' = Idle
          /\ requests' = Others(requests, ctx)

-----------------------------------------------------------------------------

Init ==
    /\ doc = NewDoc
    /\ db = InitialDb
    /\ cache = "counted"
    /\ queue = << >>
    /\ requests = [r \in Requests |-> Idle]
    /\ job = Idle
    /\ invocations = 0
    /\ effects = [s \in StageSet |-> 0]
    /\ last = NoUnit

Next ==
    \/ \E user \in Users, ignored \in IgnoreInputs, flags \in FlagInputs :
           Save(user, ignored, flags)
    \/ \E user \in Users, ignored \in IgnoreInputs : Submit(user, ignored)
    \/ Cancel
    \/ \E method \in Whitelisted : Invoke(method)
    \/ Dequeue
    \/ \E r \in Requests, failAt \in StageSet \cup {"none"} : RunRequest(r, failAt)
    \/ \E failAt \in StageSet \cup {"none"} : RunJob(failAt)

Spec == Init /\ [][Next]_vars

(* the worker of queue "long" keeps working: an enqueued run is eventually   *)
(* taken, and a run it has taken eventually ends                             *)
WorkerRuns == \E failAt \in StageSet \cup {"none"} : RunJob(failAt)

LiveSpec == Spec /\ WF_vars(Dequeue) /\ WF_vars(WorkerRuns)

-----------------------------------------------------------------------------
(* Properties *)

(* a unit of work ends in this step *)
JobEnds == job # Idle /\ job' = Idle
RequestEnds(r) == requests[r] # Idle /\ requests'[r] = Idle
UnitEnds == JobEnds \/ \E r \in Requests : RequestEnds(r)

(* the one-time stages: every stage but the transaction deletion *)
OneTimeStages == StageSet \ {"delete_company_transactions"}

(* C1: stage effects happen in the declared order.  Whenever a unit of work *)
(* (a whitelisted call or a continuation) enters the effect of a stage, the  *)
(* checkpoint flag of every earlier stage is set on the job it runs on.      *)
C1_StageOrder ==
    \A i \in 1..Len(last.eff) :
        \A s \in StageSet :
            StageIndex(s) < StageIndex(last.eff[i].stage)
                => last.eff[i].flags[FlagOf(s)] = 1

(* a continuation of the chain started by delete_bins performs the last      *)
(* stage's effect                                                            *)
C1_Witness ==
    /\ last.op = "unit"
    /\ last.method = "delete_company_transactions"
    /\ last.error = "none"
    /\ Len(last.eff) = 1

(* the stage a stage hands over to; the transaction deletion is terminal *)
Successor(stage) ==
    IF StageIndex(stage) < Len(Stages) THEN << Stages[StageIndex(stage) + 1] >> ELSE << >>

Reinvoked(unit) ==
    /\ unit.method \in StageSet
    /\ unit.doc[FlagOf(unit.method)] = 1

(* C2: a stage run on a job whose checkpoint flag for it is already set      *)
(* changes nothing in the record store or the job (flags, inventory) and     *)
(* enqueues exactly its successor stage (the terminal stage has none).       *)
C2_ReinvokeIsNoOp ==
    [][ /\ (JobEnds /\ Reinvoked(job))
            => /\ db' = db
               /\ doc' = doc
               /\ queue' = queue \o Successor(job.method)
        /\ \A r \in Requests :
              (RequestEnds(r) /\ Reinvoked(requests[r]))
                 => /\ db' = db
                    /\ doc' = doc
                    /\ queue' = queue \o Successor(requests[r].method) ]_vars

(* a continuation found its flag set, did nothing and passed the chain on *)
C2_Witness ==
    /\ last.op = "unit"
    /\ last.method = "reset_company_values"
    /\ last.error = "none"
    /\ last.eff = << >>
    /\ queue # << >>
    /\ queue[Len(queue)] = "delete_notifications"

C4_BatchBound ==
    \A i \in 1..Len(last.batches) :
        /\ Cardinality(last.batches[i].fetched) <= batch_size
        /\ Cardinality(last.batches[i].deleted) <= batch_size

RowExists(doctype, name) == \E r \in db.rows : r.dt = doctype /\ r.name = name

(* C5 as claimed: no dependent artifact is left dangling.  Every version,    *)
(* communication, comment and attachment that refers to a record, and every  *)
(* child row, has its owning record in the store.                            *)
C5_NoDangling ==
    /\ \A a \in db.versions \cup db.communications \cup db.comments \cup db.files :
          a.ref_doctype # NULL => RowExists(a.ref_doctype, a.ref_name)
    /\ \A r \in db.rows : r.parenttype # NULL => RowExists(r.parenttype, r.parent)

Quiescent ==
    /\ queue = << >>
    /\ job = Idle
    /\ \A r \in Requests : requests[r] = Idle

(* C6 as claimed: once the transaction deletion has run and every enqueued   *)
(* continuation has run, every inventory entry is marked done.               *)
C6_AllDone ==
    (doc.docstatus = 1 /\ doc.delete_transactions = 1 /\ Quiescent)
        => \A i \in 1..Len(doc.doctypes) : doc.doctypes[i].done = 1

(* C7 as claimed: a unit that fails keeps none of its effects (record store, *)
(* notification cache), sets no flag and schedules nothing.                  *)
C7_Claimed ==
    [][ (UnitEnds /\ last'.error # "none")
            => /\ doc' = doc
               /\ db' = db
               /\ cache' = cache
               /\ queue' = queue
               /\ effects' = effects ]_vars

(* C7 as amended: a unit that fails keeps none of its record-store effects,  *)
(* sets no flag and schedules nothing; the clearing of the notification      *)
(* cache, which is not part of the transaction, is not undone.  The queue    *)
(* only grows when a unit commits.                                           *)
C7_FailStop ==
    [][ /\ (UnitEnds /\ last'.error # "none")
            => /\ doc' = doc
               /\ db' = db
               /\ queue' = queue
               /\ effects' = effects
        /\ Len(queue') > Len(queue) => (UnitEnds /\ last'.error = "none") ]_vars

(* a whitelisted call failed after it had cleared the notification cache *)
C7_Witness ==
    /\ last.op = "unit"
    /\ last.error = "StageError"
    /\ Len(last.eff) > 4
    /\ cache = "cleared"
    /\ doc.clear_notifications = 0

(* C8 as claimed: immediately after a successful submit every checkpoint     *)
(* flag is 0 and status is Queued.                                           *)
C8_SubmitResets ==
    (last.op = "submit" /\ last.error = "none")
        => /\ Flags(doc) = NoFlags
           /\ doc.status = "Queued"

(* C9: a save or submit by someone who is not a System Manager, or with an   *)
(* ignore list holding a type outside the built-in list plus the hook list,  *)
(* raises and leaves the job not Queued; otherwise it is accepted (also with *)
(* entries removed), and a submit makes the job Queued.                      *)
C9_ValidationBlocks ==
    last.op \in {"save", "submit"}
        => IF last.user = "System Manager"
              /\ last.ignored \subseteq (BuiltinIgnored \cup company_data_to_be_ignored)
           THEN /\ last.error = "none"
                /\ last.op = "submit" => (doc.docstatus = 1 /\ doc.status = "Queued")
           ELSE /\ last.error # "none"
                /\ doc.docstatus < 1
                /\ doc.status # "Queued"

(* a System Manager's submit was refused for a manually added entry *)
C9_Witness ==
    /\ last.op = "submit"
    /\ last.user = "System Manager"
    /\ "Sales Invoice" \in last.ignored
    /\ last.error = "ValidationError"

NamesOf(rows, doctype) == {r.name : r \in {q \in rows : q.dt = doctype}}

Cancels == doc.docstatus = 1 /\ doc'.docstatus = 2

(* a continuation loaded from the queue ends in this step, on a cancelled    *)
(* job, with the flag of its stage unset when it was loaded and no failure   *)
(* of the data store in its effect                                           *)
RunsAfterCancel(stage) ==
    /\ JobEnds
    /\ doc.docstatus = 2
    /\ job.method = stage
    /\ job.doc[FlagOf(stage)] = 0
    /\ last'.error # "StageError"

(* cancel writes status (and the document state) and nothing else *)
CancelFrame ==
    Cancels => /\ doc' = [doc EXCEPT !.status = "Cancelled", !.docstatus = 2]
               /\ db' = db
               /\ cache' = cache
               /\ queue' = queue

(* C11 as claimed: cancel sets status to Cancelled and changes nothing else, *)
(* and every continuation enqueued before the cancel still performs its      *)
(* stage effect when it runs after the cancel.                               *)
C11_Claimed ==
    [][ /\ CancelFrame
        /\ \A s \in StageSet :
              RunsAfterCancel(s) => effects'[s] = effects[s] + 1 ]_vars

(* C11 as amended: cancel sets status to Cancelled and changes nothing else  *)
(* of the job, the store or the queue; a continuation that runs after the    *)
(* cancel still performs the effect of every stage but the inventory         *)
(* initialization, whose save of the cancelled job is refused: that          *)
(* continuation never changes the inventory, and when it fails it sets no    *)
(* flag and enqueues no successor.                                           *)
C11_CancelFrame ==
    [][ /\ CancelFrame
        /\ \A s \in StageSet \ {"initialize_doctypes_to_be_deleted_table"} :
              RunsAfterCancel(s) => effects'[s] = effects[s] + 1
        /\ RunsAfterCancel("initialize_doctypes_to_be_deleted_table")
              => /\ doc'.doctypes = doc.doctypes
                 /\ last'.error # "none" => (doc' = doc /\ queue' = queue) ]_vars

(* after the cancel the chain went on past the lead/address cleanup, and the *)
(* inventory initialization was refused the save of the cancelled job        *)
C11_Witness ==
    /\ doc.docstatus = 2
    /\ doc.status = "Cancelled"
    /\ doc.delete_leads_and_addresses = 1
    /\ last.op = "unit"
    /\ last.method = "initialize_doctypes_to_be_deleted_table"
    /\ last.error = "ValidationError"

StatusChanges(from, to) == doc.status = from /\ doc'.status = to

InventoryTypes == {doc.doctypes[i].doctype_name : i \in 1..Len(doc.doctypes)}

Discovered == effects["initialize_doctypes_to_be_deleted_table"] >= 1

(* the Link-to-Company fields of types outside the job's ignore list that    *)
(* had a record of the job's company when the job started (no stage before   *)
(* the discovery creates or deletes such records)                            *)
LinkedAtDiscovery ==
    {i \in 1..Len(CompanyLinkFields) :
        /\ CompanyLinkFields[i].parent \notin doc.doctypes_to_be_ignored
        /\ \E r \in InitialRows :
              /\ r.dt = CompanyLinkFields[i].parent
              /\ r[CompanyLinkFields[i].fieldname] = doc.company}

(* C13 as claimed: after the inventory initialization has run, the types of  *)
(* the inventory are exactly the types with a Link field to Company, minus   *)
(* the ignore list, that had a record of the target company at discovery.    *)
C13_Claimed ==
    Discovered
        => InventoryTypes = {CompanyLinkFields[i].parent : i \in LinkedAtDiscovery}

(* C13 as amended: ... exactly the types with a Link field to Company, minus *)
(* the ignore list, minus the single types, the child-table types and the    *)
(* job's own type, that had a record of the target company at discovery.     *)
C13_InventoryExact ==
    Discovered
        => InventoryTypes =
              {CompanyLinkFields[i].parent : i \in LinkedAtDiscovery}
                  \ (SingleDoctypes \cup ChildDoctypes \cup {SelfDoctype})

(* discovery ran on a job whose ignore list had Account removed: Account is  *)
(* in the inventory beside the transaction types, the invoice items are not  *)
C13_Witness ==
    /\ Discovered
    /\ {"Sales Invoice", "Lead", "Account"} \subseteq InventoryTypes
    /\ "Sales Invoice Item" \notin InventoryTypes

(* the Lead linkage rows of the leads of the job's company *)
TargetLeadLinks ==
    {l \in InitialDb.links :
        /\ l.link_doctype = "Lead"
        /\ \E r \in InitialRows :
              r.dt = "Lead" /\ r.name = l.link_name /\ r.company = doc.company}

(* C14 as claimed: the lead/address cleanup deletes an address only if it is *)
(* linked only to leads of the target company (an address also linked to     *)
(* anything else still exists), it removes the Lead linkage rows of the      *)
(* target company's leads, and every other linkage row remains.              *)
C14_AddressCleanup ==
    /\ \A a \in InitialRows :
          (a.dt = "Address" /\ ~RowExists("Address", a.name))
              => \A l \in InitialDb.links : l.parent = a.name => l \in TargetLeadLinks
    /\ db.links \in {InitialDb.links, InitialDb.links \ TargetLeadLinks}
    /\ effects["delete_lead_addresses"] >= 1
          => db.links = InitialDb.links \ TargetLeadLinks

(* the numeric suffix of the numerically highest record name of the type     *)
(* with the prefix that is still in the store, or 0                          *)
HighestSurviving(doctype, prefix) ==
    LET names == {r.name : r \in {q \in db.rows : q.dt = doctype /\ NameLike(q.name, prefix)}}
    IN IF names = {} THEN 0
       ELSE CHOOSE n \in {SuffixNumber(m, prefix) : m \in names} :
               \A m \in names : SuffixNumber(m, prefix) <= n

(* C15 as claimed: after a unit's transaction deletion has processed a type  *)
(* whose naming pattern has a '#' counter, the series counter of the         *)
(* pattern's prefix is the numeric suffix of the numerically highest         *)
(* surviving identifier, or 0; the counter of a type whose pattern has no    *)
(* '#' is unchanged.                                                         *)
C15_SeriesCounter ==
    /\ (last.op = "unit" /\ last.error = "none")
          => \A i \in 1..Len(last.batches) :
                LET doctype == last.batches[i].doctype_name
                    naming_series == Autoname(doctype)
                IN HasCounter(naming_series)
                      => db.series[SeriesPrefix(naming_series)] =
                            HighestSurviving(doctype, SeriesPrefix(naming_series))
    /\ db.series["ACC-"] = InitialDb.series["ACC-"]

(* the batches a unit ran for an inventory entry *)
BatchesFor(batches, entry) ==
    {k \in 1..Len(batches) :
        /\ batches[k].doctype_name = entry.doctype_name
        /\ batches[k].docfield_name = entry.docfield_name}

(* the records of the store that reference the job's company by the entry's  *)
(* field                                                                     *)
LiveRows(entry) ==
    {r \in db.rows : r.dt = entry.doctype_name /\ r[entry.docfield_name] = doc.company}

(* the unit ran the transaction deletion on the inventory it had loaded and  *)
(* committed                                                                 *)
DeletionRan(unit) ==
    /\ unit.method \in {"delete_company_transactions", "start_deletion_process"}
    /\ unit.doc.delete_transactions = 0
    /\ last'.error = "none"

ZeroCountVisit(unit) ==
    DeletionRan(unit)
        => /\ \A i \in 1..Len(unit.doc.doctypes) :
                 LET entry == unit.doc.doctypes[i]
                 IN /\ (entry.done = 0 /\ LiveRows(entry) = {})
                          => /\ doc'.doctypes[i].done = 1
                             /\ BatchesFor(last'.batches, entry) = {}
                             /\ {r \in db.rows : r.dt = entry.doctype_name}
                                   \subseteq db'.rows
                                \/ \E j \in 1..Len(unit.doc.doctypes) :
                                      /\ unit.doc.doctypes[j].doctype_name = entry.doctype_name
                                      /\ BatchesFor(last'.batches, unit.doc.doctypes[j]) # {}
                    /\ entry.done = 0
                          => \/ doc'.doctypes[i].done = 1
                             \/ BatchesFor(last'.batches, entry) # {}
           /\ Len(queue') = Len(queue) + Len(last'.batches)
                               + (IF unit.method = "start_deletion_process" THEN 5 ELSE 0)

(* C16: when the transaction deletion visits an entry that is not done and  *)
(* has no record of the target company left, it marks the entry done, runs   *)
(* no batch for it (nothing of the type is fetched or deleted on its         *)
(* account), enqueues a continuation only per batch it ran, and goes on to   *)
(* the other entries.                                                        *)
C16_ZeroCountDone ==
    [][ /\ JobEnds => ZeroCountVisit(job)
        /\ \A r \in Requests : RequestEnds(r) => ZeroCountVisit(requests[r]) ]_vars

(* a continuation found the records of its inventory already deleted and     *)
(* marked the entries done without a batch                                   *)
C16_Witness ==
    /\ last.op = "unit"
    /\ last.method = "delete_company_transactions"
    /\ last.error = "none"
    /\ Len(last.eff) = 1
    /\ last.batches = << >>
    /\ \E i \in 1..Len(doc.doctypes) : doc.doctypes[i].done = 1

NoTableOrOwnType ==
    \A i \in 1..Len(doc.doctypes) :
        doc.doctypes[i].doctype_name \notin ChildDoctypes \cup {SelfDoctype}

(* C17 as claimed: the inventory holds at most one entry per record type,    *)
(* and no entry names a child-table type or the job's own type.              *)
C17_Claimed ==
    /\ \A i, j \in 1..Len(doc.doctypes) :
          doc.doctypes[i].doctype_name = doc.doctypes[j].doctype_name => i = j
    /\ NoTableOrOwnType

(* C17 as amended: the inventory holds at most one entry per pair of record  *)
(* type and Link field to Company (a type with two such fields that both     *)
(* have matching records has two entries), and no entry names a child-table  *)
(* type or the job's own type.                                               *)
C17_OneEntryPerField ==
    /\ \A i, j \in 1..Len(doc.doctypes) :
          (/\ doc.doctypes[i].doctype_name = doc.doctypes[j].doctype_name
           /\ doc.doctypes[i].docfield_name = doc.doctypes[j].docfield_name) => i = j
    /\ NoTableOrOwnType

(* discovery listed Sales Invoice once for each of its two Link fields *)
C17_Witness ==
    /\ Discovered
    /\ \E i, j \in 1..Len(doc.doctypes) :
          /\ doc.doctypes[i].doctype_name = "Sales Invoice"
          /\ doc.doctypes[j].doctype_name = "Sales Invoice"
          /\ doc.doctypes[i].docfield_name = "company"
          /\ doc.doctypes[j].docfield_name = "represents_company"

(* C18: the done flag of an inventory entry is monotonic.  In every step (a  *)
(* stage execution, a continuation, a cancel) an entry that has done = 1     *)
(* is still the same entry with done = 1 afterwards.                         *)
C18_DoneMonotonic ==
    [][ \A i \in 1..Len(doc.doctypes) :
          doc.doctypes[i].done = 1
             => /\ i <= Len(doc'.doctypes)
                /\ doc'.doctypes[i] = doc.doctypes[i] ]_vars

(* an entry was marked done, later units ran and the job was cancelled *)
C18_Witness ==
    /\ doc.docstatus = 2
    /\ \E i \in 1..Len(doc.doctypes) : doc.doctypes[i].done = 1
    /\ last.op = "unit"
    /\ last.eff = << >>

(* C19: the continuation chain quiesces.  With a worker that keeps working,  *)
(* the queue of the job eventually is empty, with no run in progress, and    *)
(* stays so: only finitely many continuations are ever enqueued.             *)
C19_Quiesces == <>[](queue = << >> /\ job = Idle)

(* start_deletion_process ran, its continuations (the self-enqueued          *)
(* delete_company_transactions among them) have run and the queue is empty   *)
C19_Witness ==
    /\ Quiescent
    /\ effects["delete_company_transactions"] >= 1
    /\ last.op = "unit"
    /\ last.method = "delete_company_transactions"
    /\ last.error = "none"
    /\ last.eff = << >>

(* whenever delete_transactions is set, no record of an inventory type       *)
(* references the job's company by a Link field                              *)
FlagTruthful ==
    doc.delete_transactions = 1
        => \A r \in db.rows :
              r.dt \in InventoryTypes
                 => r.company # doc.company /\ r.represents_company # doc.company

(* every record of an inventory type whose company is another company is     *)
(* still in the store                                                        *)
OtherCompanyKept ==
    \A r \in InitialRows :
        (r.dt \in InventoryTypes /\ r.company = OtherCompany)
            => RowExists(r.dt, r.name)

(* C20 as claimed: the transactions-deleted flag tells the truth and the     *)
(* deletion is tenant-scoped: with delete_transactions set no record of an   *)
(* inventory type references the target company, and at every point every    *)
(* record of an inventory type whose Company field names a different company *)
(* still exists.                                                             *)
C20_TenantScoped == FlagTruthful /\ OtherCompanyKept

====
